---- MODULE Spec2Model ----
(***************************************************************************)
(* Model of the review question-answering backend (backend/ai_core):       *)
(*   - chunk_text of 2_create_rag_index.py (sentence-packing segmenter),   *)
(*   - the query pipeline QueryApplicationService.query_product ->         *)
(*     QueryUseCase.execute -> RAGService.query_rag, with the persisted    *)
(*     index / chunks / reviews files it reads, the generative backend it  *)
(*     calls and the offline rebuild that rewrites the files.              *)
(* Strings are sequences of one-character strings.                         *)
(***************************************************************************)
EXTENDS Integers, Sequences, FiniteSets, TLC

VARIABLES
    \* ---- chunk_text harness (2_create_rag_index.py) ----
    ctext,          \* the text handed to chunk_text
    cmax,           \* its max_length argument
    cout,           \* the list chunk_text returned
    cpc,            \* "input" before the call, "done" after it
    \* ---- persisted artifacts ----
    indexFile,      \* [exists, data]: index.faiss, data = the chunk list it embeds
    chunksFile,     \* [exists, data]: chunks.json
    reviewsFile,    \* [exists, data]: reviews.json
    corpusVer,      \* number of writes made to the persisted artifacts so far
    rebuild,        \* [active, data]: 2_create_rag_index.main between its two writes
    \* ---- service objects (one set of instances) ----
    aiBackend,      \* which IAIService implementation the RAGService holds
    ragIndex,       \* RAGService._index
    ragChunks,      \* RAGService._chunks: [set, data, by]; by = the query that loaded it
    ragLoaded,      \* RAGService._loaded
    repoReviews,    \* FileReviewRepository: [loaded, data] (_loaded, _reviews)
    \* ---- queries in progress, one per caller thread ----
    pc,             \* position of each caller inside its query
    local,          \* locals of each query: entry, question, top, stats, response
    obs,            \* observations of each query (stage events, snapshot, reads)
    result,         \* what the entry point returned or raised to each caller
    hist,           \* the successful responses of execute, in completion order
    started,        \* number of queries started so far
    \* ---- one call of a function of the backend on given arguments ----
    callIn,         \* the arguments
    callOut,        \* what the call returned or raised
    callPc,         \* "input" before the call, "done" after it
    \* ---- RateLimitingMiddleware ----
    now,            \* time.time(), in ticks
    request_history,\* self.request_history: per client, the times it holds
    admitted,       \* per client, the times of all requests let through
    limited,        \* "on" while the middleware of this run receives requests
    \* ---- the process-wide DI container and the request handlers ----
    services,       \* Container._services['query_application_service']
    configured,     \* Container._configured
    reqPc,          \* per handler thread: its position in query_product
    reqUseMocks,    \* per handler thread: use_mocks of its request
    reqService      \* per handler thread: the app_service it obtained

chunkVars == <<ctext, cmax, cout, cpc>>
fileVars == <<indexFile, chunksFile, reviewsFile, corpusVer, rebuild>>
svcVars == <<aiBackend, ragIndex, ragChunks, ragLoaded, repoReviews>>
queryVars == <<pc, local, obs, result, hist, started>>
callVars == <<callIn, callOut, callPc>>
limitVars == <<now, request_history, admitted, limited>>
diVars == <<services, configured, reqPc, reqUseMocks, reqService>>
vars == <<chunkVars, fileVars, svcVars, queryVars, callVars, limitVars, diVars>>

(***************************************************************************)
(* Bounds of the model.                                                    *)
(***************************************************************************)
MaxTextLen == 5      \* longest text handed to chunk_text
MaxLength == 3       \* largest max_length handed to chunk_text
MaxWrites == 2       \* writes to the persisted artifacts in one behaviour
MaxQueries == 2      \* queries started in one behaviour
MaxReviews == 3      \* longest review list handed to the statistics routines
MaxTop == 3          \* longest chunk list handed to build_prompt
MaxVectors == 3      \* most vectors in an index, most chunks in a loaded list
MaxPad == 1          \* most blanks on either side of a question
\* The rate limiter on a reduced scale.  One tick of the clock stands for
\* half a minute: the windows of 60, 3600 and 86400 seconds become 2, 4 and
\* 6 ticks, the limits of 60, 1000 and 10000 requests become 2, 3 and 4.
\* As in the program, the limits grow more slowly than the windows, so the
\* per-minute rate kept up for an hour exceeds the per-hour limit.
MaxTime == 6
MinuteWindow == 2
HourWindow == 4
DayWindow == 6
requests_per_minute == 2
requests_per_hour == 3
requests_per_day == 4

(***************************************************************************)
(* Strings.                                                                *)
(***************************************************************************)
Chars == {"a", ".", " "}
Punct == {".", "!", "?"}
Whitespace == {" "}

Texts(n) == UNION {[1..k -> Chars] : k \in 0..n}

RECURSIVE LStrip(_)
LStrip(s) ==
    IF s # <<>> /\ Head(s) \in Whitespace THEN LStrip(Tail(s)) ELSE s

RECURSIVE RStrip(_)
RStrip(s) ==
    IF s # <<>> /\ s[Len(s)] \in Whitespace
    THEN RStrip(SubSeq(s, 1, Len(s) - 1))
    ELSE s

\* str.strip()
Strip(s) == RStrip(LStrip(s))

(***************************************************************************)
(* chunk_text                                                              *)
(***************************************************************************)
\* first position >= i of text that holds no blank
RECURSIVE SkipBlanks(_, _)
SkipBlanks(text, i) ==
    IF i <= Len(text) /\ text[i] = " " THEN SkipBlanks(text, i + 1) ELSE i

\* re.split(r'(?<=[.!?]) +', text): a separator is a maximal run of blanks
\* that directly follows '.', '!' or '?'; cur is the piece being read,
\* acc the pieces already closed.
RECURSIVE SplitFrom(_, _, _, _)
SplitFrom(text, i, cur, acc) ==
    IF i > Len(text) THEN Append(acc, cur)
    ELSE IF text[i] = " " /\ i > 1 /\ text[i - 1] \in Punct
         THEN SplitFrom(text, SkipBlanks(text, i), <<>>, Append(acc, cur))
         ELSE SplitFrom(text, i + 1, Append(cur, text[i]), acc)

SplitSentences(text) == SplitFrom(text, 1, <<>>, <<>>)

\* the loop body: one sentence against the running buffer
PackSentence(st, sent, maxLength) ==
    IF Len(st.current) + Len(sent) <= maxLength
    THEN [current |-> st.current
                      \o (IF st.current # <<>> THEN <<" ">> ELSE <<>>) \o sent,
          chunks  |-> st.chunks]
    ELSE [current |-> sent,
          chunks  |-> IF st.current # <<>>
                      THEN Append(st.chunks, Strip(st.current))
                      ELSE st.chunks]

RECURSIVE PackFrom(_, _, _, _)
PackFrom(sentences, i, st, maxLength) ==
    IF i > Len(sentences) THEN st
    ELSE PackFrom(sentences, i + 1, PackSentence(st, sentences[i], maxLength),
                  maxLength)

PackAll(text, maxLength) ==
    PackFrom(SplitSentences(text), 1, [current |-> <<>>, chunks |-> <<>>],
             maxLength)

\* a return statement that hands back the list as collected
KeepEveryChunk(chunks) == chunks

NonEmptyOnly(chunks) == SelectSeq(chunks, LAMBDA c : c # <<>>)

\* a packing that forgets the buffer left over after the last sentence
ChunkTextNoFinalFlush(text, maxLength) ==
    NonEmptyOnly(PackAll(text, maxLength).chunks)

ChunkText(text, maxLength) ==
    LET st == PackAll(text, maxLength)
    IN  NonEmptyOnly(IF st.current # <<>>
                     THEN Append(st.chunks, Strip(st.current))
                     ELSE st.chunks)

(***************************************************************************)
(* Data of the query pipeline.                                             *)
(***************************************************************************)
\* Entries of chunks.json / reviews.json.  kind: "str" for a plain string,
\* "dict" for an object; tone: outcome of the lexicon comparison on the
\* entry's text; rateKind: "absent" (no 'rate' key), "int" (a number, in
\* rate), "huge" (an integer too large for a float), "text" (a string).
StrChunk == [kind |-> "str", tone |-> "pos", rateKind |-> "absent", rate |-> 0]
DictChunk == [kind |-> "dict", tone |-> "neg", rateKind |-> "int", rate |-> 2]
HugeRateChunk == [kind |-> "dict", tone |-> "neu", rateKind |-> "huge", rate |-> 0]
TextRateChunk == [kind |-> "dict", tone |-> "neu", rateKind |-> "text", rate |-> 0]
\* an entry that is neither a string nor an object (a number, a list)
OtherChunk == [kind |-> "other", tone |-> "neu", rateKind |-> "absent", rate |-> 0]

\* the contents of chunks.json considered: as deployed (any entries) ...
ChunkLists ==
    {<<>>, <<DictChunk, OtherChunk, StrChunk>>, <<HugeRateChunk>>,
     <<StrChunk, TextRateChunk>>}
\* ... and as 2_create_rag_index.py writes it (strings, at least one)
RebuildLists == {<<StrChunk>>, <<StrChunk, StrChunk>>}
\* the contents of reviews.json considered
ReviewLists == {<<DictChunk>>, <<DictChunk, DictChunk>>, <<TextRateChunk>>}

NoFile == [exists |-> FALSE, data |-> <<>>]
FileOf(data) == [exists |-> TRUE, data |-> data]

Threads == {"t1", "t2"}
Questions == {<<>>, <<"a", "a", "a">>}
RawTexts == {<<>>, <<" ">>, <<"a", " ">>}
Backends == {"GeminiAIService", "MockAIService"}

\* what the provider underneath generate_response does in one call
RawOutcomes ==
    {[kind |-> "text", text |-> t] : t \in RawTexts}
        \cup {[kind |-> k, text |-> <<>>] : k \in {"none", "raise", "default"}}

RawFor(backend) ==
    IF backend = "GeminiAIService"
    THEN {r \in RawOutcomes : r.kind \in {"text", "none", "raise"}}
    ELSE {r \in RawOutcomes : r.kind \in {"text", "default"}}

NoMaxReviews == [present |-> FALSE, value |-> 0]

(***************************************************************************)
(* QueryRequestDTO.validate                                                *)
(***************************************************************************)
MinQuestionLen == 3
MaxQuestionLen == 500
MinMaxReviews == 1
MaxMaxReviews == 1000

\* a validation that measures the question as typed
ValidateUntrimmed(question, maxReviews) ==
    (IF question = <<>> THEN <<"Soru bos olamaz">> ELSE <<>>)
    \o (IF Len(question) < MinQuestionLen
        THEN <<"Soru en az 3 karakter olmalidir">> ELSE <<>>)
    \o (IF Len(question) > MaxQuestionLen
        THEN <<"Soru en fazla 500 karakter olabilir">> ELSE <<>>)
    \o (IF maxReviews.present
           /\ (maxReviews.value < MinMaxReviews \/ maxReviews.value > MaxMaxReviews)
        THEN <<"Maksimum yorum sayisi 1-1000 arasinda olmalidir">> ELSE <<>>)

Validate(question, maxReviews) ==
    (IF question = <<>> \/ Strip(question) = <<>>
     THEN <<"Soru bos olamaz">> ELSE <<>>)
    \o (IF Len(Strip(question)) < MinQuestionLen
        THEN <<"Soru en az 3 karakter olmalidir">> ELSE <<>>)
    \o (IF Len(Strip(question)) > MaxQuestionLen
        THEN <<"Soru en fazla 500 karakter olabilir">> ELSE <<>>)
    \o (IF maxReviews.present
           /\ (maxReviews.value < MinMaxReviews \/ maxReviews.value > MaxMaxReviews)
        THEN <<"Maksimum yorum sayisi 1-1000 arasinda olmalidir">> ELSE <<>>)

(***************************************************************************)
(* Exceptions: an exception is modelled by the name of its class.          *)
(***************************************************************************)
NoExc == "none"

\* load_index_and_chunks with the existence checks left out
LoadIndexAndChunksUnchecked(idx, chk) ==
    [ok |-> TRUE, exc |-> NoExc, index |-> idx.data, chunks |-> chk.data]

\* a load that keeps what the service holds once a load has succeeded
LoadIndexAndChunksCached(idx, chk) ==
    IF ragLoaded
    THEN [ok |-> TRUE, exc |-> NoExc, index |-> ragIndex.data,
          chunks |-> ragChunks.data]
    ELSE IF ~idx.exists \/ ~chk.exists
    THEN [ok |-> FALSE, exc |-> "FileNotFoundError", index |-> <<>>, chunks |-> <<>>]
    ELSE [ok |-> TRUE, exc |-> NoExc, index |-> idx.data, chunks |-> chk.data]

\* RAGService.load_index_and_chunks: the outcome for the two files as found
LoadIndexAndChunks(idx, chk) ==
    IF ~idx.exists \/ ~chk.exists
    THEN [ok |-> FALSE, exc |-> "FileNotFoundError", index |-> <<>>, chunks |-> <<>>]
    ELSE [ok |-> TRUE, exc |-> NoExc, index |-> idx.data, chunks |-> chk.data]

\* query_rag: except Exception -> raise RAGServiceError
QueryRagRaise(e) == "RAGServiceError"

\* QueryUseCase.execute: the three known classes pass, the rest is wrapped
ExecuteRaise(e) ==
    IF e \in {"ValidationError", "RAGServiceError", "AIServiceError"}
    THEN e ELSE "RAGServiceError"

\* an error code per exception class that knows validation errors only
ErrorCodeTwoWay(e) ==
    IF e = "ValidationError" THEN "VALIDATION_ERROR" ELSE "BUSINESS_ERROR"

\* QueryApplicationService.query_product: the error code per exception class
ErrorCode(e) ==
    IF e = "ValidationError" THEN "VALIDATION_ERROR"
    ELSE IF e \in {"RAGServiceError", "AIServiceError"} THEN "BUSINESS_ERROR"
    ELSE "INTERNAL_ERROR"

(***************************************************************************)
(* Lexicon comparison.  A text is a sequence of words; the words that      *)
(* matter are written without diacritics ("guzel" for 'güzel').            *)
(***************************************************************************)
\* the members of positive_words / negative_words that occur in the model
PositiveWords == {"guzel", "iyi"}
NegativeWords == {"kotu"}

\* str.lower() on a word
Lower(w) == CASE w = "Cok" -> "cok" [] w = "Kotu" -> "kotu" [] OTHER -> w

\* sum(1 for word in lexicon if word in text): one per lexicon word that the
\* lower-cased text holds, however often it holds it
LexiconHits(text, lexicon) ==
    Cardinality({w \in lexicon : \E i \in 1..Len(text) : Lower(text[i]) = w})

\* the if / elif / else on positive_count and negative_count
ToneOf(text) ==
    LET positive_count == LexiconHits(text, PositiveWords)
        negative_count == LexiconHits(text, NegativeWords)
    IN  IF positive_count > negative_count THEN "pos"
        ELSE IF negative_count > positive_count THEN "neg"
        ELSE "neu"

\* A review object with its words: comment and user are texts, rateKind and
\* rate as for the entries above.
GoodReview ==
    [comment |-> <<"Cok", "guzel", "urun">>, user |-> <<>>,
     rateKind |-> "int", rate |-> 5]
BadReview ==
    [comment |-> <<"Kotu", "kalite">>, user |-> <<>>, rateKind |-> "int", rate |-> 2]
RepeatReview ==
    [comment |-> <<"iyi", "iyi", "kotu">>, user |-> <<>>,
     rateKind |-> "int", rate |-> 4]
UserWordReview ==
    [comment |-> <<"urun">>, user |-> <<"iyi">>, rateKind |-> "absent", rate |-> 0]
UnratedReview ==
    [comment |-> <<"urun">>, user |-> <<>>, rateKind |-> "int", rate |-> 0]
TextRateReview ==
    [comment |-> <<"urun">>, user |-> <<>>, rateKind |-> "text", rate |-> 0]

StatReviews ==
    {GoodReview, BadReview, RepeatReview, UserWordReview, UnratedReview,
     TextRateReview}

\* extract_product_stats: text = str(chunk).lower(), the whole object
RagText(review) == review.comment \o review.user
\* get_review_statistics: comment = review.get('comment', '').lower()
RepoText(review) == review.comment

\* the list as each routine sees it: every entry with the outcome of the
\* lexicon comparison on the text that routine searches
RagChunksOf(reviews) ==
    [i \in 1..Len(reviews) |->
        [kind |-> "dict", tone |-> ToneOf(RagText(reviews[i])),
         rateKind |-> reviews[i].rateKind, rate |-> reviews[i].rate]]
RepoReviewsOf(reviews) ==
    [i \in 1..Len(reviews) |->
        [kind |-> "dict", tone |-> ToneOf(RepoText(reviews[i])),
         rateKind |-> reviews[i].rateKind, rate |-> reviews[i].rate]]

(***************************************************************************)
(* RAGService: formatting, statistics, prompt, footer.                     *)
(***************************************************************************)
\* chunk['rate'] > 0 raises TypeError when the rate is a string
RateCompareRaises(c) == c.kind = "dict" /\ c.rateKind = "text"
HasPositiveRate(c) ==
    c.kind = "dict" /\ (c.rateKind = "huge" \/ (c.rateKind = "int" /\ c.rate > 0))

\* the "YORUM i: ..." loop of query_rag
FormatReviews(chunks) ==
    IF \E i \in 1..Len(chunks) : RateCompareRaises(chunks[i])
    THEN [ok |-> FALSE, exc |-> "TypeError", top |-> <<>>]
    ELSE [ok |-> TRUE, exc |-> NoExc,
          top |-> SelectSeq([i \in 1..Len(chunks) |-> [no |-> i, chunk |-> chunks[i]]],
                            LAMBDA r : r.chunk.kind \in {"dict", "str"})]

\* a total in which a rate weighs by its position in the list
RECURSIVE SumRatesWeighted(_, _)
SumRatesWeighted(chunks, i) ==
    IF i > Len(chunks) THEN 0
    ELSE (IF chunks[i].kind = "dict" /\ chunks[i].rateKind = "int"
             /\ chunks[i].rate > 0
          THEN i * chunks[i].rate ELSE 0) + SumRatesWeighted(chunks, i + 1)

RECURSIVE SumRates(_, _)
SumRates(chunks, i) ==
    IF i > Len(chunks) THEN 0
    ELSE (IF HasPositiveRate(chunks[i]) /\ chunks[i].rateKind = "int"
          THEN chunks[i].rate ELSE 0) + SumRates(chunks, i + 1)

\* rating_count
CountRated(chunks) ==
    Cardinality({i \in 1..Len(chunks) : HasPositiveRate(chunks[i])})

\* a counter that starts at one
CountToneFromOne(chunks, tone) ==
    Cardinality({i \in 1..Len(chunks) : chunks[i].tone = tone}) + 1

\* the counter of one tone (pozitifYorumlar, negatifYorumlar, nötrYorumlar)
CountTone(chunks, tone) ==
    Cardinality({i \in 1..Len(chunks) : chunks[i].tone = tone})

\* a mean cut off after the first decimal
TruncTenths(total, count) == (10 * total) \div count

\* round(total / count, 1) in tenths.  A tie (..x5) goes to the even tenth
\* when the quotient is exact in binary, which it is for every count below
\* 20 (ties then end in .25 or .75); the lists of the model are shorter.
RoundTenths(total, count) ==
    LET q == (10 * total) \div count
        r == (10 * total) % count
    IN  IF 2 * r > count \/ (2 * r = count /\ q % 2 = 1) THEN q + 1 ELSE q

\* the dict of the except branch of extract_product_stats
FallbackStats(chunks) ==
    [avg10 |-> 0, total |-> Len(chunks), positive |-> 0, negative |-> 0,
     neutral |-> 0]

\* RAGService.extract_product_stats; avg10 is ortalamaPuan in tenths.
\* total_rating / rating_count raises OverflowError for a huge integer.
ExtractProductStats(chunks) ==
    LET count == CountRated(chunks)
        raises == (\E i \in 1..Len(chunks) : RateCompareRaises(chunks[i]))
                  \/ (\E i \in 1..Len(chunks) : chunks[i].kind = "dict"
                                                /\ chunks[i].rateKind = "huge")
    IN  IF raises
        THEN [failed |-> TRUE, stats |-> FallbackStats(chunks)]
        ELSE [failed |-> FALSE,
              stats |->
                [avg10 |-> IF count > 0 THEN RoundTenths(SumRates(chunks, 1), count)
                           ELSE 0,
                 total |-> Len(chunks),
                 positive |-> CountTone(chunks, "pos"),
                 negative |-> CountTone(chunks, "neg"),
                 neutral |-> CountTone(chunks, "neu")]]

ZeroStats ==
    [avg10 |-> 0, total |-> 0, positive |-> 0, negative |-> 0, neutral |-> 0]

\* One stretch of the prompt string.  line: which stretch; no and text: the
\* number and the text of a review line, text also the question of the
\* question line; na / val: a statistic printed as 'N/A' or as its value,
\* val also the number of the count line.
PromptLine(line, no, text, na, val) ==
    [line |-> line, no |-> no, text |-> text, na |-> na, val |-> val]

FixedLine(line) == PromptLine(line, 0, <<>>, FALSE, 0)

\* the statistics build_prompt prints, in the order it prints them
\* (ortalamaPuan, toplamDegerlendirme, pozitifYorumlar, negatifYorumlar)
PrintedStats == <<"avg10", "total", "positive", "negative">>

\* a lookup that prints nothing for a missing key
StatsGetBlank(stats, key) ==
    IF key \in DOMAIN stats THEN [na |-> FALSE, val |-> stats[key]]
    ELSE [na |-> FALSE, val |-> 0]

\* product_stats.get(key, 'N/A')
StatsGet(stats, key) ==
    IF key \in DOMAIN stats THEN [na |-> FALSE, val |-> stats[key]]
    ELSE [na |-> TRUE, val |-> 0]

StatLines(stats) ==
    [i \in 1..Len(PrintedStats) |->
        LET got == StatsGet(stats, PrintedStats[i])
        IN  PromptLine("stat", i, <<>>, got.na, got.val)]

\* a context that lists the chunks last to first
ContextLinesReversed(top) ==
    [i \in 1..Len(top) |->
        PromptLine("review", i, top[Len(top) + 1 - i], FALSE, 0)]

\* context = '\n'.join(f'{i+1}. {c}' for i, c in enumerate(top_chunks))
ContextLines(top) ==
    [i \in 1..Len(top) |-> PromptLine("review", i, top[i], FALSE, 0)]

\* RAGService.build_prompt: the f-string, stretch by stretch
BuildPrompt(question, top, stats) ==
    <<FixedLine("role"), FixedLine("stats header")>>
        \o StatLines(stats)
        \o <<FixedLine("reviews header")>>
        \o ContextLines(top)
        \o <<PromptLine("count", 0, <<>>, FALSE, Len(top)),
             FixedLine("rules"),
             PromptLine("question", 0, question, FALSE, 0),
             FixedLine("closing")>>

\* RAGService._add_review_count_to_response: text + "... {used}/{total} ..."
AddReviewCount(text, total, used) ==
    [text |-> text, used |-> used, total |-> total]

NoAnswer == [text |-> <<>>, used |-> 0, total |-> 0]

(***************************************************************************)
(* IAIService.generate_response                                            *)
(***************************************************************************)
DefaultMockText == <<"M", "o", "c", "k">>

\* GeminiAIService.generate_response
GeminiGenerate(raw) ==
    IF raw.kind = "raise" THEN [ok |-> FALSE, exc |-> "AIServiceError", text |-> <<>>]
    ELSE IF raw.kind = "none" \/ raw.text = <<>>
         THEN [ok |-> FALSE, exc |-> "APIError", text |-> <<>>]
         ELSE [ok |-> TRUE, exc |-> NoExc, text |-> Strip(raw.text)]

\* MockAIService.generate_response: a registered response, or the default
MockGenerate(raw) ==
    IF raw.kind = "text" THEN [ok |-> TRUE, exc |-> NoExc, text |-> raw.text]
    ELSE [ok |-> TRUE, exc |-> NoExc, text |-> DefaultMockText]

GenerateResponse(backend, raw) ==
    IF backend = "GeminiAIService" THEN GeminiGenerate(raw) ELSE MockGenerate(raw)

(***************************************************************************)
(* FileReviewRepository                                                    *)
(***************************************************************************)
\* load_reviews: the cached list when there is one, else the file (or [])
LoadReviews(repo, file) ==
    IF repo.loaded THEN repo
    ELSE [loaded |-> TRUE, data |-> IF file.exists THEN file.data ELSE <<>>]

\* FileReviewRepository.get_review_statistics on the loaded list: only
\* objects are rated and classified; rating > 0 raises for a string, the
\* division for a huge integer, and the except branch returns zeros
GetReviewStatistics(reviews) ==
    LET dicts == SelectSeq(reviews, LAMBDA r : r.kind = "dict")
        count == CountRated(dicts)
        raises == \E i \in 1..Len(dicts) : dicts[i].rateKind \in {"text", "huge"}
    IN  IF raises THEN [failed |-> TRUE, stats |-> ZeroStats]
        ELSE [failed |-> FALSE,
              stats |->
                [avg10 |-> IF count > 0 THEN RoundTenths(SumRates(dicts, 1), count)
                           ELSE 0,
                 total |-> Len(reviews),
                 positive |-> CountTone(dicts, "pos"),
                 negative |-> CountTone(dicts, "neg"),
                 neutral |-> CountTone(dicts, "neu")]]

\* a statistics routine that keeps adding to a total it shares across calls
ReviewTotalAccumulating(reviews) == Len(reviews) + Len(hist)

\* get_review_statistics: 'total_reviews', 0 from the except branch
ReviewTotal(reviews) == GetReviewStatistics(reviews).stats.total

(***************************************************************************)
(* State of one query.                                                     *)
(***************************************************************************)
InitLocal ==
    [entry |-> "none", question |-> <<>>, top |-> <<>>, stats |-> ZeroStats,
     response |-> <<>>]

\* events: the stages run so far; snap: the chunk list this query's own load
\* stored; foreign: some later step found another list in RAGService._chunks
InitObs ==
    [events |-> <<>>, snap |-> <<>>, foreign |-> FALSE, indexMissing |-> FALSE,
     fileMissing |-> FALSE, statsFailed |-> FALSE, genEmpty |-> FALSE]

NoResult ==
    [status |-> "none", exc |-> NoExc, cause |-> NoExc, code |-> "",
     answer |-> NoAnswer, total_reviews |-> 0, used_reviews |-> 0]

\* what the caller of the entry point gets when e is raised inside query_rag
\* (inRag) or inside execute itself
ErrorResult(entry, e, inRag) ==
    LET fromRag == IF inRag THEN QueryRagRaise(e) ELSE e
        leaving == IF entry = "query_rag" THEN fromRag ELSE ExecuteRaise(fromRag)
    IN  [status |-> "Error", exc |-> leaving, cause |-> e,
         code |-> IF entry = "query_product" THEN ErrorCode(leaving) ELSE "",
         answer |-> NoAnswer, total_reviews |-> 0, used_reviews |-> 0]

\* the locals are gone once the entry point has returned or raised; the
\* caller still knows which entry point it called with which question
Returned(l) == [InitLocal EXCEPT !.entry = l.entry, !.question = l.question]

\* a stage that is run a second time right after the first
EventRepeated(t, e) == [obs[t] EXCEPT !.events = @ \o <<e, e>>]

Event(t, e) == [obs[t] EXCEPT !.events = Append(@, e)]

\* a step of query t that reads RAGService._chunks
ReadEvent(t, e) ==
    [obs[t] EXCEPT !.events = Append(@, e),
                   !.foreign = @ \/ ragChunks.data # obs[t].snap]

(***************************************************************************)
(* Initial states.                                                         *)
(***************************************************************************)
ChunkIdle ==
    /\ ctext = <<>>
    /\ cmax = 1
    /\ cout = <<>>
    /\ cpc = "off"

QueryInit ==
    /\ \E data \in ChunkLists :
          /\ chunksFile \in {NoFile, FileOf(data)}
          /\ indexFile \in {NoFile, FileOf(data)}
    /\ reviewsFile \in {NoFile} \cup {FileOf(r) : r \in ReviewLists}
    /\ corpusVer = 0
    /\ rebuild = [active |-> FALSE, data |-> <<>>]
    /\ aiBackend \in Backends
    /\ ragIndex = [set |-> FALSE, data |-> <<>>]
    /\ ragChunks = [set |-> FALSE, data |-> <<>>, by |-> "none"]
    /\ ragLoaded = FALSE
    /\ repoReviews = [loaded |-> FALSE, data |-> <<>>]
    /\ pc = [t \in Threads |-> "idle"]
    /\ local = [t \in Threads |-> InitLocal]
    /\ obs = [t \in Threads |-> InitObs]
    /\ result = [t \in Threads |-> NoResult]
    /\ hist = <<>>
    /\ started = 0

CallIdle ==
    /\ callIn = <<>>
    /\ callOut = <<>>
    /\ callPc = "off"

Clients == {"c1", "c2"}

\* the middleware as constructed: an empty history for every client
LimitFresh ==
    /\ now = 0
    /\ request_history = [c \in Clients |-> <<>>]
    /\ admitted = [c \in Clients |-> <<>>]

LimitIdle == LimitFresh /\ limited = "off"

Handlers == {"h1", "h2"}

\* the container as get_container creates it, no request being handled
DiFresh ==
    /\ services = "none"
    /\ configured = FALSE
    /\ reqUseMocks = [h \in Handlers |-> FALSE]
    /\ reqService = [h \in Handlers |-> "none"]

DiIdle == DiFresh /\ reqPc = [h \in Handlers |-> "off"]

Init == ChunkIdle /\ CallIdle /\ LimitIdle /\ DiIdle /\ QueryInit

(***************************************************************************)
(* The query, step by step.                                                *)
(***************************************************************************)
\* the callers are interchangeable: "t1" is the one that calls first
CanStart(t) ==
    /\ pc[t] \in {"idle", "done"}
    /\ started < MaxQueries
    /\ t = "t1" \/ started > 0

\* QueryApplicationService.query_product up to the call of query_rag:
\* the request DTO, QueryUseCase.execute and its validation
StartQueryProduct(t, question) ==
    /\ CanStart(t)
    /\ started' = started + 1
    /\ obs' = [obs EXCEPT ![t] = InitObs]
    /\ IF Validate(question, NoMaxReviews) # <<>>
       THEN /\ result' = [result EXCEPT ![t] =
                            ErrorResult("query_product", "ValidationError", FALSE)]
            /\ pc' = [pc EXCEPT ![t] = "done"]
            /\ local' = [local EXCEPT ![t] =
                            Returned([InitLocal EXCEPT !.entry = "query_product",
                                                       !.question = question])]
       ELSE /\ result' = [result EXCEPT ![t] = NoResult]
            /\ pc' = [pc EXCEPT ![t] = "load"]
            /\ local' = [local EXCEPT ![t] =
                            [InitLocal EXCEPT !.entry = "query_product",
                                              !.question = question]]
    /\ UNCHANGED <<limitVars, diVars, chunkVars, callVars, fileVars, svcVars, hist>>

\* RAGService.query_rag called directly
StartQueryRag(t, question) ==
    /\ CanStart(t)
    /\ started' = started + 1
    /\ local' = [local EXCEPT ![t] =
                    [InitLocal EXCEPT !.entry = "query_rag",
                                      !.question = question]]
    /\ obs' = [obs EXCEPT ![t] = InitObs]
    /\ result' = [result EXCEPT ![t] = NoResult]
    /\ pc' = [pc EXCEPT ![t] = "load"]
    /\ UNCHANGED <<limitVars, diVars, chunkVars, callVars, fileVars, svcVars, hist>>

\* query_rag: self._loaded = False; self.load_index_and_chunks()
Load(t) ==
    /\ pc[t] = "load"
    /\ LET r == LoadIndexAndChunks(indexFile, chunksFile)
           o == [Event(t, "load") EXCEPT !.indexMissing = ~indexFile.exists,
                                         !.fileMissing = ~indexFile.exists
                                                         \/ ~chunksFile.exists]
       IN  IF r.ok
           THEN /\ ragIndex' = [set |-> TRUE, data |-> r.index]
                /\ ragChunks' = [set |-> TRUE, data |-> r.chunks, by |-> t]
                /\ ragLoaded' = TRUE
                /\ obs' = [obs EXCEPT ![t] = [o EXCEPT !.snap = r.chunks]]
                /\ pc' = [pc EXCEPT ![t] = "format"]
                /\ UNCHANGED result
           ELSE /\ ragLoaded' = FALSE
                /\ obs' = [obs EXCEPT ![t] = o]
                /\ result' = [result EXCEPT ![t] =
                                ErrorResult(local[t].entry, r.exc, TRUE)]
                /\ pc' = [pc EXCEPT ![t] = "done"]
                /\ UNCHANGED <<ragIndex, ragChunks>>
    /\ local' = [local EXCEPT ![t] = IF pc'[t] = "done" THEN Returned(@) ELSE @]
    /\ UNCHANGED <<limitVars, diVars, chunkVars, callVars, fileVars, aiBackend, repoReviews, hist, started>>

\* query_rag: the loop over self._chunks that numbers the reviews
Format(t) ==
    /\ pc[t] = "format"
    /\ LET r == FormatReviews(ragChunks.data)
           o == ReadEvent(t, "format")
       IN  /\ obs' = [obs EXCEPT ![t] = o]
           /\ IF r.ok
              THEN /\ local' = [local EXCEPT ![t].top = r.top]
                   /\ pc' = [pc EXCEPT ![t] = "stats"]
                   /\ UNCHANGED result
              ELSE /\ result' = [result EXCEPT ![t] =
                                   ErrorResult(local[t].entry, r.exc, TRUE)]
                   /\ pc' = [pc EXCEPT ![t] = "done"]
                   /\ local' = [local EXCEPT ![t] = Returned(@)]
    /\ UNCHANGED <<limitVars, diVars, chunkVars, callVars, fileVars, svcVars, hist, started>>

\* query_rag: product_stats = self.extract_product_stats(self._chunks)
Stats(t) ==
    /\ pc[t] = "stats"
    /\ LET r == ExtractProductStats(ragChunks.data)
       IN  /\ local' = [local EXCEPT ![t].stats = r.stats]
           /\ obs' = [obs EXCEPT ![t] =
                        [ReadEvent(t, "stats") EXCEPT !.statsFailed = r.failed]]
    /\ pc' = [pc EXCEPT ![t] = "generate"]
    /\ UNCHANGED <<limitVars, diVars, chunkVars, callVars, fileVars, svcVars, result, hist, started>>

\* query_rag: build_prompt, then self._ai_service.generate_response(prompt)
Generate(t, raw) ==
    /\ pc[t] = "generate"
    /\ raw \in RawFor(aiBackend)
    /\ LET prompt == BuildPrompt(local[t].question, local[t].top, local[t].stats)
           r == GenerateResponse(aiBackend, raw)
           o == [obs[t] EXCEPT
                    !.events = @ \o <<"prompt", "generate">>,
                    !.genEmpty = \/ raw.kind = "none"
                                \/ (raw.kind = "text" /\ raw.text = <<>>)
                                \/ (r.ok /\ r.text = <<>>)]
       IN  /\ prompt # <<>>
           /\ obs' = [obs EXCEPT ![t] = o]
           /\ IF r.ok
              THEN /\ local' = [local EXCEPT ![t].response = r.text]
                   /\ pc' = [pc EXCEPT ![t] = "post"]
                   /\ UNCHANGED result
              ELSE /\ result' = [result EXCEPT ![t] =
                                   ErrorResult(local[t].entry, r.exc, TRUE)]
                   /\ pc' = [pc EXCEPT ![t] = "done"]
                   /\ local' = [local EXCEPT ![t] = Returned(@)]
    /\ UNCHANGED <<limitVars, diVars, chunkVars, callVars, fileVars, svcVars, hist, started>>

\* query_rag: _add_review_count_to_response(response, len(self._chunks),
\* len(top_chunks)) and return
Post(t) ==
    /\ pc[t] = "post"
    /\ LET answer == AddReviewCount(local[t].response, Len(ragChunks.data),
                                    Len(local[t].top))
       IN  /\ obs' = [obs EXCEPT ![t] = ReadEvent(t, "post")]
           /\ result' = [result EXCEPT ![t] =
                            [NoResult EXCEPT
                                !.status = IF local[t].entry = "query_rag"
                                           THEN "Done" ELSE "none",
                                !.answer = answer]]
           /\ pc' = [pc EXCEPT ![t] = IF local[t].entry = "query_rag"
                                      THEN "done" ELSE "repo"]
           /\ local' = [local EXCEPT ![t] = IF local[t].entry = "query_rag"
                                            THEN Returned(@) ELSE @]
    /\ UNCHANGED <<limitVars, diVars, chunkVars, callVars, fileVars, svcVars, hist, started>>

\* execute: review_stats = get_review_statistics(); the response DTO
RepoStats(t) ==
    /\ pc[t] = "repo"
    /\ LET repo == LoadReviews(repoReviews, reviewsFile)
           total == ReviewTotal(repo.data)
           fresh == ReviewTotal(LoadReviews([loaded |-> FALSE, data |-> <<>>],
                                            reviewsFile).data)
       IN  /\ repoReviews' = repo
           /\ result' = [result EXCEPT ![t] =
                            [@ EXCEPT !.status = "Done", !.total_reviews = total,
                                      !.used_reviews = total]]
           /\ hist' = Append(hist, [question |-> local[t].question,
                                    total_reviews |-> total,
                                    used_reviews |-> total,
                                    ver |-> corpusVer, persisted |-> fresh])
    /\ pc' = [pc EXCEPT ![t] = "done"]
    /\ local' = [local EXCEPT ![t] = Returned(@)]
    /\ UNCHANGED <<limitVars, diVars, chunkVars, callVars, fileVars, aiBackend, ragIndex, ragChunks, ragLoaded,
                   obs, started>>

(***************************************************************************)
(* Writers of the persisted artifacts.                                     *)
(***************************************************************************)
\* the scraper (1_fetch_reviews.py) rewrites reviews.json
WriteReviews(data) ==
    /\ corpusVer < MaxWrites
    /\ data \in ReviewLists
    /\ reviewsFile # FileOf(data)
    /\ reviewsFile' = FileOf(data)
    /\ corpusVer' = corpusVer + 1
    /\ UNCHANGED <<limitVars, diVars, chunkVars, callVars, indexFile, chunksFile, rebuild, svcVars, queryVars>>

\* 2_create_rag_index.main up to faiss.write_index: the chunks it cut from
\* reviews.json are embedded and the index is written
RebuildWriteIndex(data) ==
    /\ ~rebuild.active
    /\ corpusVer + 1 < MaxWrites
    /\ reviewsFile.exists
    /\ data \in RebuildLists
    /\ indexFile' = FileOf(data)
    /\ rebuild' = [active |-> TRUE, data |-> data]
    /\ corpusVer' = corpusVer + 1
    /\ UNCHANGED <<limitVars, diVars, chunkVars, callVars, chunksFile, reviewsFile, svcVars, queryVars>>

\* 2_create_rag_index.main: json.dump(all_chunks) into chunks.json
RebuildWriteChunks ==
    /\ rebuild.active
    /\ chunksFile' = FileOf(rebuild.data)
    /\ rebuild' = [active |-> FALSE, data |-> <<>>]
    /\ corpusVer' = corpusVer + 1
    /\ UNCHANGED <<limitVars, diVars, chunkVars, callVars, indexFile, reviewsFile, svcVars, queryVars>>

Writers ==
    \/ \E data \in ReviewLists : WriteReviews(data)
    \/ \E data \in RebuildLists : RebuildWriteIndex(data)
    \/ RebuildWriteChunks

\* the steps of the queries of the callers in T
QuerySteps(T) ==
    \/ \E t \in T, q \in Questions : StartQueryProduct(t, q)
    \/ \E t \in T, q \in Questions : StartQueryRag(t, q)
    \/ \E t \in T : Load(t)
    \/ \E t \in T : Format(t)
    \/ \E t \in T : Stats(t)
    \/ \E t \in T, raw \in RawOutcomes : Generate(t, raw)
    \/ \E t \in T : Post(t)
    \/ \E t \in T : RepoStats(t)

\* one caller, one query after the other, while the artifacts are rewritten
Next == QuerySteps({"t1"}) \/ Writers

Spec == Init /\ [][Next]_vars

\* two callers whose queries interleave on the same service objects
ConcNext == QuerySteps(Threads) \/ Writers

ConcSpec == Init /\ [][ConcNext]_vars

(***************************************************************************)
(* chunk_text on every text and every max_length within the bounds.        *)
(***************************************************************************)
QueryIdle ==
    /\ chunksFile = NoFile
    /\ indexFile = NoFile
    /\ reviewsFile = NoFile
    /\ corpusVer = 0
    /\ rebuild = [active |-> FALSE, data |-> <<>>]
    /\ aiBackend = "MockAIService"
    /\ ragIndex = [set |-> FALSE, data |-> <<>>]
    /\ ragChunks = [set |-> FALSE, data |-> <<>>, by |-> "none"]
    /\ ragLoaded = FALSE
    /\ repoReviews = [loaded |-> FALSE, data |-> <<>>]
    /\ pc = [t \in Threads |-> "off"]
    /\ local = [t \in Threads |-> InitLocal]
    /\ obs = [t \in Threads |-> InitObs]
    /\ result = [t \in Threads |-> NoResult]
    /\ hist = <<>>
    /\ started = 0

ChunkInit ==
    /\ ctext \in Texts(MaxTextLen)
    /\ cmax \in 1..MaxLength
    /\ cout = <<>>
    /\ cpc = "input"
    /\ QueryIdle
    /\ CallIdle
    /\ LimitIdle
    /\ DiIdle

\* chunks = chunk_text(text, max_length)
ChunkTextCall ==
    /\ cpc = "input"
    /\ cout' = ChunkText(ctext, cmax)
    /\ cpc' = "done"
    /\ UNCHANGED <<ctext, cmax, fileVars, svcVars, queryVars, callVars, limitVars, diVars>>

ChunkNext == ChunkTextCall

ChunkSpec == ChunkInit /\ [][ChunkNext]_vars

(***************************************************************************)
(* Properties of the query pipeline.                                       *)
(***************************************************************************)
Finished(t) == pc[t] = "done"
Ran(t, stage) == \E i \in 1..Len(obs[t].events) : obs[t].events[i] = stage

\* C1: a query whose question is "" ends in ValidationError and never
\* attempts to load the index or the chunks, whether it entered through
\* QueryUseCase.execute or through RAGService.query_rag.
C1_EmptyQuestionRejectedBeforeLoad ==
    \A t \in Threads :
        (local[t].entry # "none" /\ local[t].question = <<>>) =>
            /\ ~Ran(t, "load")
            /\ Finished(t) => /\ result[t].status = "Error"
                              /\ result[t].exc = "ValidationError"

\* C2: when the index file or the chunks file is missing, the error that
\* leaves query_rag is FileNotFoundError, and the code query_product returns
\* is not one of the generic codes.
C2_MissingFileSurfacesAsIndexNotFound ==
    \A t \in Threads :
        (Finished(t) /\ obs[t].fileMissing) =>
            /\ result[t].status = "Error"
            /\ result[t].exc = "FileNotFoundError"
            /\ local[t].entry = "query_product" =>
                   result[t].code \notin {"BUSINESS_ERROR", "INTERNAL_ERROR"}

\* C3: a query whose load found no index file has ended in an error, and
\* between its start and that error neither the embedding model nor the
\* generative model was called.
C3_MissingIndexFailsFast ==
    \A t \in Threads :
        obs[t].indexMissing =>
            /\ Finished(t)
            /\ result[t].status = "Error"
            /\ ~Ran(t, "embed")
            /\ ~Ran(t, "generate")

C3_Witness ==
    \E t \in Threads :
        /\ obs[t].indexMissing
        /\ Finished(t)
        /\ result[t].cause = "FileNotFoundError"
        /\ obs[t].events = <<"load">>

\* C4: when the text that came back from the generative backend is empty or
\* missing, the query ends in an error whose cause is APIError; it does
\* not return an answer.
C4_EmptyGenerationIsAPIError ==
    \A t \in Threads :
        (Finished(t) /\ obs[t].genEmpty) =>
            /\ result[t].status = "Error"
            /\ result[t].cause = "APIError"

\* C5: when statistics extraction failed, the query goes on (prompt,
\* generation) with statistics whose five fields are all zero.
C5_StatsFailureYieldsZeroStats ==
    \A t \in Threads :
        (obs[t].statsFailed /\ pc[t] \in {"generate", "post", "repo"}) =>
            local[t].stats = ZeroStats

\* C6: two responses to the same question, computed while the persisted
\* corpus was the same, carry the same total_reviews and used_reviews
\* (the generator's text, chosen freely in each query, has no part in them).
C6_SameQuestionSameCounts ==
    \A i, j \in 1..Len(hist) :
        (hist[i].question = hist[j].question /\ hist[i].ver = hist[j].ver) =>
            /\ hist[i].total_reviews = hist[j].total_reviews
            /\ hist[i].used_reviews = hist[j].used_reviews

C6_Witness ==
    /\ Len(hist) >= 2
    /\ hist[1].question = hist[2].question
    /\ hist[1].ver = hist[2].ver
    /\ hist[1].total_reviews > 0

\* C7: the total_reviews of every response is the one the reviews file
\* persisted at the time of the query gives, not one kept from an earlier
\* query.
C7_StatisticsFreshPerQuery ==
    \A i \in 1..Len(hist) : hist[i].total_reviews = hist[i].persisted

\* the entries of a chunk list that the format loop turns into a review line
Formatted(chunks) == {i \in 1..Len(chunks) : chunks[i].kind \in {"dict", "str"}}

\* C18: the answer of a query that reaches Done is the text the generator
\* returned, unchanged, followed by the footer N/M, M the number of chunks
\* this query loaded and N the number of chunks it put into the prompt.
C18_AnswerIsTextPlusFooter ==
    \A t \in Threads :
        /\ pc[t] = "repo" =>
               result[t].answer = [text |-> local[t].response,
                                   used |-> Len(local[t].top),
                                   total |-> Len(obs[t].snap)]
        /\ (Finished(t) /\ result[t].status = "Done") =>
               /\ result[t].answer.total = Len(obs[t].snap)
               /\ result[t].answer.used = Cardinality(Formatted(obs[t].snap))

\* C8: every step of a query that reads the chunk list reads the list this
\* query's own load stored, also when another query runs interleaved on
\* the same RAGService.
C8_QueriesUseOwnSnapshot ==
    \A t \in Threads : ~obs[t].foreign

(***************************************************************************)
(* Properties of chunk_text.                                               *)
(***************************************************************************)
HasPunct(text) == \E i \in 1..Len(text) : text[i] \in Punct

\* the sentences of a text: its pieces, blanks around them removed, empty
\* pieces left out
Sentences(text) ==
    LET pieces == SplitSentences(text)
    IN  NonEmptyOnly([i \in 1..Len(pieces) |-> Strip(pieces[i])])

RECURSIVE SentencesOfChunks(_, _)
SentencesOfChunks(chunks, i) ==
    IF i > Len(chunks) THEN <<>>
    ELSE Sentences(chunks[i]) \o SentencesOfChunks(chunks, i + 1)

\* C9: for a non-empty text with a terminal punctuation mark, every chunk
\* is at most max_length long, except a chunk that is one single sentence
\* longer than max_length.
C9_ChunkLengthBounded ==
    (cpc = "done" /\ ctext # <<>> /\ HasPunct(ctext)) =>
        \A i \in 1..Len(cout) :
            \/ Len(cout[i]) <= cmax
            \/ Len(SplitSentences(cout[i])) = 1

\* C10: the sentences of the chunks, read in chunk order, are the sentences
\* of the text in their order: none dropped, repeated, split or moved.
C10_ChunksKeepSentences ==
    cpc = "done" => SentencesOfChunks(cout, 1) = Sentences(ctext)

C10_Witness ==
    /\ cpc = "done"
    /\ Len(cout) >= 2
    /\ Len(Sentences(ctext)) >= 3
    /\ \E i \in 1..Len(cout) : Len(Sentences(cout[i])) >= 2

\* C11 (as stated): chunk_text returns no empty or blank chunk, the empty
\* text gives the empty list, and every non-empty text without '.', '!' or
\* '?' gives exactly one chunk.
C11_OneChunkWithoutPunctuation ==
    cpc = "done" =>
        /\ \A i \in 1..Len(cout) : Strip(cout[i]) # <<>>
        /\ ctext = <<>> => cout = <<>>
        /\ (ctext # <<>> /\ ~HasPunct(ctext)) => Len(cout) = 1

\* C11 (amended): chunk_text returns no empty or blank chunk, the empty text
\* gives the empty list, a blank text gives the empty list too, and a text
\* without '.', '!' or '?' that holds a non-blank character gives exactly
\* one chunk, the stripped text, whatever max_length is.
C11_NoBlankChunks ==
    cpc = "done" =>
        /\ \A i \in 1..Len(cout) : Strip(cout[i]) # <<>>
        /\ Strip(ctext) = <<>> => cout = <<>>
        /\ (~HasPunct(ctext) /\ Strip(ctext) # <<>>) => cout = <<Strip(ctext)>>

C11_Witness ==
    /\ cpc = "done"
    /\ ~HasPunct(ctext)
    /\ Len(Strip(ctext)) > cmax
    /\ Strip(ctext) # ctext
    /\ Len(cout) = 1

(***************************************************************************)
(* The two statistics routines on every review list within the bounds.     *)
(***************************************************************************)
ReviewListsUpTo(n) == UNION {[1..k -> StatReviews] : k \in 0..n}

StatsInit ==
    /\ callIn \in ReviewListsUpTo(MaxReviews)
    /\ callOut = <<>>
    /\ callPc = "input"
    /\ ChunkIdle
    /\ QueryIdle
    /\ LimitIdle
    /\ DiIdle

\* extract_product_stats(chunks) and get_review_statistics() on the same list
ExtractStatsCall ==
    /\ callPc = "input"
    /\ callOut' = [rag |-> ExtractProductStats(RagChunksOf(callIn)),
                   repo |-> GetReviewStatistics(RepoReviewsOf(callIn))]
    /\ callPc' = "done"
    /\ UNCHANGED <<callIn, limitVars, diVars, chunkVars, fileVars, svcVars, queryVars>>

StatsNext == ExtractStatsCall

StatsSpec == StatsInit /\ [][StatsNext]_vars

(***************************************************************************)
(* Properties of the statistics routines.                                  *)
(***************************************************************************)
StatsDone == callPc = "done" /\ DOMAIN callOut = {"rag", "repo"}
BothStats == {callOut.rag.stats, callOut.repo.stats}

\* every rate of the list is absent or a number
WellFormed(reviews) ==
    \A i \in 1..Len(reviews) : reviews[i].rateKind \in {"absent", "int"}

Rated(reviews) ==
    {i \in 1..Len(reviews) : reviews[i].rateKind = "int" /\ reviews[i].rate > 0}

RECURSIVE RatingTotal(_, _)
RatingTotal(reviews, i) ==
    IF i > Len(reviews) THEN 0
    ELSE (IF i \in Rated(reviews) THEN reviews[i].rate ELSE 0)
         + RatingTotal(reviews, i + 1)

ScenarioA == <<GoodReview, BadReview>>
ScenarioAStats ==
    [avg10 |-> 35, total |-> 2, positive |-> 1, negative |-> 1, neutral |-> 0]

Occurrences(text, lexicon) ==
    Cardinality({i \in 1..Len(text) : Lower(text[i]) \in lexicon})

ToneByOccurrences(review) ==
    LET p == Occurrences(review.comment, PositiveWords)
        n == Occurrences(review.comment, NegativeWords)
    IN  IF p > n THEN "pos" ELSE IF n > p THEN "neg" ELSE "neu"

CountByOccurrences(reviews, tone) ==
    Cardinality({i \in 1..Len(reviews) : ToneByOccurrences(reviews[i]) = tone})

\* C13: every review is classified by the numbers of occurrences of
\* positive and of negative lexicon words in its comment, each occurrence
\* counted and only the comment searched; the three counters are the
\* numbers of reviews so classified.
C13_ToneByOccurrencesInComment ==
    (StatsDone /\ WellFormed(callIn)) =>
        \A st \in BothStats :
            /\ st.positive = CountByOccurrences(callIn, "pos")
            /\ st.negative = CountByOccurrences(callIn, "neg")
            /\ st.neutral = CountByOccurrences(callIn, "neu")

\* C14: on the empty review list both routines return average 0, total 0,
\* positive 0, negative 0 and neutral 0.
C14_EmptyListGivesZeros ==
    (StatsDone /\ callIn = <<>>) =>
        /\ callOut.rag = [failed |-> FALSE, stats |-> ZeroStats]
        /\ callOut.repo = [failed |-> FALSE, stats |-> ZeroStats]

C14_Witness ==
    /\ StatsDone
    /\ callIn = <<>>
    /\ BothStats = {ZeroStats}

PermutationsOf(n) ==
    {f \in [1..n -> 1..n] : \A i, j \in 1..n : i # j => f[i] # f[j]}

\* C15: for every review list and every permutation of it both routines
\* return the same average, total, positive, negative and neutral.
C15_OrderIndependent ==
    StatsDone =>
        \A f \in PermutationsOf(Len(callIn)) :
            LET shuffled == [i \in 1..Len(callIn) |-> callIn[f[i]]]
            IN  /\ ExtractProductStats(RagChunksOf(shuffled)) = callOut.rag
                /\ GetReviewStatistics(RepoReviewsOf(shuffled)) = callOut.repo

C15_Witness ==
    /\ StatsDone
    /\ Len(callIn) >= 3
    /\ callIn[1] = GoodReview
    /\ callIn[2] = BadReview
    /\ callIn[3] = UserWordReview
    /\ callOut.rag.stats.avg10 = 35

(***************************************************************************)
(* build_prompt on every question, chunk list and statistics dict within   *)
(* the bounds.                                                             *)
(***************************************************************************)
PromptQuestions == Questions \cup {<<"a", " ", "?">>}
TopTexts == {"x", "y"}
TopLists(n) == UNION {[1..k -> TopTexts] : k \in 0..n}

FullStats ==
    [avg10 |-> 35, total |-> 2, positive |-> 1, negative |-> 1, neutral |-> 0]

\* the dicts that hold some of the five keys
StatsDicts == {[k \in S |-> FullStats[k]] : S \in SUBSET DOMAIN FullStats}

PromptInit ==
    /\ callIn \in [question : PromptQuestions, top : TopLists(MaxTop),
                   stats : StatsDicts]
    /\ callOut = <<>>
    /\ callPc = "input"
    /\ ChunkIdle
    /\ QueryIdle
    /\ LimitIdle
    /\ DiIdle

\* prompt = build_prompt(question, top_chunks, product_stats)
BuildPromptCall ==
    /\ callPc = "input"
    /\ callOut' = BuildPrompt(callIn.question, callIn.top, callIn.stats)
    /\ callPc' = "done"
    /\ UNCHANGED <<callIn, limitVars, diVars, chunkVars, fileVars, svcVars, queryVars>>

PromptNext == BuildPromptCall

PromptSpec == PromptInit /\ [][PromptNext]_vars

(***************************************************************************)
(* Properties of build_prompt.                                             *)
(***************************************************************************)
LinesOf(prompt, line) == SelectSeq(prompt, LAMBDA l : l.line = line)

\* C16: the prompt lists the chunks numbered 1..n in the order received:
\* its review lines are n, the i-th carries number i and the i-th chunk.
C16_PromptKeepsChunkOrder ==
    callPc = "done" =>
        LET listed == LinesOf(callOut, "review")
        IN  /\ Len(listed) = Len(callIn.top)
            /\ \A i \in 1..Len(listed) :
                   listed[i].no = i /\ listed[i].text = callIn.top[i]

C16_Witness ==
    /\ callPc = "done"
    /\ Len(callIn.top) >= 3
    /\ callIn.top[1] = "y"
    /\ callIn.top[2] = "x"
    /\ callIn.top[3] = "y"
    /\ Len(LinesOf(callOut, "review")) = 3

\* C17: for every question, chunk list (also the empty one) and statistics
\* dict (also with keys missing) build_prompt returns a non-empty prompt
\* that holds the question as given, once, and prints each statistic as
\* its value when the key is there and as 'N/A' when it is missing.
C17_PromptTotal ==
    callPc = "done" =>
        LET asked == LinesOf(callOut, "question")
            printed == LinesOf(callOut, "stat")
        IN  /\ callOut # <<>>
            /\ Len(asked) = 1
            /\ asked[1].text = callIn.question
            /\ Len(printed) = Len(PrintedStats)
            /\ \A i \in 1..Len(printed) :
                   IF PrintedStats[i] \in DOMAIN callIn.stats
                   THEN /\ ~printed[i].na
                        /\ printed[i].val = callIn.stats[PrintedStats[i]]
                   ELSE printed[i].na

C17_Witness ==
    /\ callPc = "done"
    /\ callIn.top = <<>>
    /\ DOMAIN callIn.stats = {"neutral"}
    /\ callIn.question = <<"a", " ", "?">>
    /\ \A i \in 1..Len(callOut) : callOut[i].line = "stat" => callOut[i].na

(***************************************************************************)
(* RAGService.get_top_chunks.  The index is the sequence of the distances  *)
(* of its vectors to the embedded question (vector i was built from the    *)
(* i-th chunk of the list that was indexed); a label is the position of a  *)
(* vector, -1 where the index has no further vector to return.             *)
(***************************************************************************)
NoLabel == -1

Min(a, b) == IF a <= b THEN a ELSE b

\* the vector of ids that is nearest: least distance, least position on a tie
Nearest(dists, ids) ==
    CHOOSE i \in ids :
        \A j \in ids : dists[i] < dists[j] \/ (dists[i] = dists[j] /\ i <= j)

RECURSIVE Ranked(_, _)
Ranked(dists, ids) ==
    IF ids = {} THEN <<>>
    ELSE LET i == Nearest(dists, ids)
         IN  <<i>> \o Ranked(dists, ids \ {i})

\* index.search(q_vec, k): the k nearest labels by non-decreasing distance,
\* filled up with -1 when the index holds fewer than k vectors
IndexSearch(dists, k) ==
    LET ranked == Ranked(dists, 1..Len(dists))
    IN  [i \in 1..k |-> IF i <= Len(ranked) THEN ranked[i] ELSE NoLabel]

\* get_top_chunks(question, top_k) on the loaded state (loaded, chunks,
\* index).  chunks[-1] is the last chunk; a label beyond the list raises
\* IndexError; every exception leaves as RAGServiceError.
GetTopChunks(question, top_k, loaded, chunks, dists) ==
    LET failed == [ok |-> FALSE, exc |-> "RAGServiceError", labels |-> <<>>,
                   top |-> <<>>]
    IN  IF question = <<>> \/ Strip(question) = <<>> THEN failed
        ELSE IF ~loaded \/ chunks = <<>> THEN failed
        ELSE LET labels == IndexSearch(dists, Min(top_k, Len(chunks)))
             IN  IF \E i \in 1..Len(labels) : labels[i] > Len(chunks) THEN failed
                 ELSE [ok |-> TRUE, exc |-> NoExc, labels |-> labels,
                       top |-> [i \in 1..Len(labels) |->
                                   IF labels[i] = NoLabel THEN chunks[Len(chunks)]
                                   ELSE chunks[labels[i]]]]

\* the chunk lists and indexes considered.  load_index_and_chunks reads the
\* two files without comparing their sizes, and the rebuild writes the index
\* before the chunk list, so the two can differ in size.
ChunkNames == [i \in 1..MaxVectors + 1 |-> <<"c", i>>]
NamedChunks(n) == [i \in 1..n |-> ChunkNames[i]]
DistanceLists(n) == UNION {[1..k -> {1, 2}] : k \in 0..n}

\* the questions considered: empty, blank, and one with text
RetrievalQuestions == Questions \cup {<<" ">>}

RetrievalInit ==
    /\ callIn \in [question : RetrievalQuestions, top_k : 1..(MaxVectors + 1),
                   loaded : BOOLEAN,
                   chunks : {NamedChunks(n) : n \in 0..MaxVectors},
                   index : DistanceLists(MaxVectors)]
    /\ callOut = <<>>
    /\ callPc = "input"
    /\ ChunkIdle
    /\ QueryIdle
    /\ LimitIdle
    /\ DiIdle

\* top_chunks = get_top_chunks(question, top_k)
GetTopChunksCall ==
    /\ callPc = "input"
    /\ callOut' = GetTopChunks(callIn.question, callIn.top_k, callIn.loaded,
                               callIn.chunks, callIn.index)
    /\ callPc' = "done"
    /\ UNCHANGED <<callIn, limitVars, diVars, chunkVars, fileVars, svcVars, queryVars>>

RetrievalNext == GetTopChunksCall

RetrievalSpec == RetrievalInit /\ [][RetrievalNext]_vars

(***************************************************************************)
(* Properties of get_top_chunks.                                           *)
(***************************************************************************)
\* a call the input validation lets through, on an index that holds a vector
RetrievalAccepted ==
    /\ callPc = "done"
    /\ Strip(callIn.question) # <<>>
    /\ callIn.loaded
    /\ callIn.chunks # <<>>
    /\ callIn.index # <<>>

\* C19: get_top_chunks returns exactly min(k, size) results, size the number
\* of vectors in the index, by non-decreasing distance, each of them the
\* chunk of a vector of the index and none twice; so with k >= size every
\* indexed chunk exactly once.
C19_RetrievalReturnsMinKSize ==
    RetrievalAccepted =>
        LET size == Len(callIn.index)
            n == Len(callOut.top)
        IN  /\ callOut.ok
            /\ n = Min(callIn.top_k, size)
            /\ \A i \in 1..n : callOut.labels[i] \in 1..size
            /\ \A i, j \in 1..n : i < j =>
                   /\ callIn.index[callOut.labels[i]] <= callIn.index[callOut.labels[j]]
                   /\ callOut.top[i] # callOut.top[j]

\* the same statement for an index and a chunk list of one size
RetrievalOnMatchingSizes ==
    (RetrievalAccepted /\ Len(callIn.index) = Len(callIn.chunks)) =>
        LET n == Len(callOut.top)
        IN  /\ callOut.ok
            /\ n = Min(callIn.top_k, Len(callIn.index))
            /\ \A i \in 1..n : callOut.top[i] = callIn.chunks[callOut.labels[i]]
            /\ \A i, j \in 1..n : i < j =>
                   /\ callIn.index[callOut.labels[i]] <= callIn.index[callOut.labels[j]]
                   /\ callOut.labels[i] # callOut.labels[j]

\* C21: get_top_chunks called with an empty or whitespace-only question, or
\* with an empty chunk list, raises ValidationError, whatever the index.
C21_RejectsWithValidationError ==
    (/\ callPc = "done"
     /\ (Strip(callIn.question) = <<>> \/ callIn.chunks = <<>>)) =>
        (~callOut.ok /\ callOut.exc = "ValidationError")

(***************************************************************************)
(* QueryRequestDTO.validate on questions around the two length limits,     *)
(* with and without blanks around them, and on caps around the two cap     *)
(* limits.                                                                 *)
(***************************************************************************)
Blanks(n) == [i \in 1..n |-> " "]
Letters(n) == [i \in 1..n |-> "a"]

QuestionLengths ==
    {0, MinQuestionLen - 1, MinQuestionLen, MinQuestionLen + 1,
     MaxQuestionLen - 1, MaxQuestionLen, MaxQuestionLen + 1}

PaddedQuestions ==
    {Blanks(l) \o Letters(n) \o Blanks(r) :
        l \in 0..MaxPad, r \in 0..MaxPad, n \in QuestionLengths}

MaxReviewsValues ==
    {NoMaxReviews}
        \cup {[present |-> TRUE, value |-> v] :
                v \in {MinMaxReviews - 2, MinMaxReviews - 1, MinMaxReviews,
                       MinMaxReviews + 1, MaxMaxReviews - 1, MaxMaxReviews,
                       MaxMaxReviews + 1}}

ValidateInit ==
    /\ callIn \in [question : PaddedQuestions, max_reviews : MaxReviewsValues]
    /\ callOut = <<>>
    /\ callPc = "input"
    /\ ChunkIdle
    /\ QueryIdle
    /\ LimitIdle
    /\ DiIdle

\* validation_errors = request.validate()
ValidateCall ==
    /\ callPc = "input"
    /\ callOut' = Validate(callIn.question, callIn.max_reviews)
    /\ callPc' = "done"
    /\ UNCHANGED <<callIn, limitVars, diVars, chunkVars, fileVars, svcVars, queryVars>>

ValidateNext == ValidateCall

ValidateSpec == ValidateInit /\ [][ValidateNext]_vars

(***************************************************************************)
(* Properties of QueryRequestDTO.validate.                                 *)
(***************************************************************************)
Reported(errors, message) == \E i \in 1..Len(errors) : errors[i] = message

\* C20: validate returns no error exactly when the trimmed question is 3 to
\* 500 characters long and max_reviews is absent or within 1..1000, and
\* each rule that is violated (not empty, at least 3, at most 500, cap in
\* range) is reported by its own message, once, and only then.
C20_ValidateRules ==
    callPc = "done" =>
        LET len == Len(Strip(callIn.question))
            capOk == \/ ~callIn.max_reviews.present
                     \/ callIn.max_reviews.value \in 1..1000
        IN  /\ callOut = <<>> <=> (len \in 3..500 /\ capOk)
            /\ Reported(callOut, "Soru bos olamaz") <=> len = 0
            /\ Reported(callOut, "Soru en az 3 karakter olmalidir") <=> len < 3
            /\ Reported(callOut, "Soru en fazla 500 karakter olabilir") <=> len > 500
            /\ Reported(callOut, "Maksimum yorum sayisi 1-1000 arasinda olmalidir")
                   <=> ~capOk
            /\ \A i, j \in 1..Len(callOut) : i # j => callOut[i] # callOut[j]

C20_Witness ==
    /\ callPc = "done"
    /\ callOut = <<>>
    /\ Len(callIn.question) > 500
    /\ Len(Strip(callIn.question)) = 500
    /\ callIn.max_reviews.present
    /\ callIn.max_reviews.value = 1000


(***************************************************************************)
(* QueryApplicationService.query_product around any IQueryUseCase: the     *)
(* use case returns a response DTO, returns something that is not one, or  *)
(* raises an exception of some class.                                      *)
(***************************************************************************)
\* the classes of Exceptions.py and one built-in class
ExceptionClasses ==
    {"AIServiceError", "ConfigurationError", "RAGServiceError",
     "FileNotFoundError", "ModelLoadError", "APIError", "ValidationError",
     "KeyError"}

UseCaseOutcomes ==
    {[kind |-> "raise", exc |-> e, answer |-> NoAnswer, total |-> 0] :
        e \in ExceptionClasses}
      \cup {[kind |-> "response", exc |-> NoExc, answer |-> a, total |-> n] :
              a \in RawTexts, n \in 0..MaxReviews}
      \cup {[kind |-> "object", exc |-> NoExc, answer |-> NoAnswer, total |-> 0]}

\* what query_product hands to its caller after an exception of class e
ErrorRecord(e) ==
    [raised |-> FALSE, success |-> FALSE, code |-> ErrorCode(e),
     answer |-> NoAnswer, total_reviews |-> 0, used_reviews |-> 0]

\* query_product for one outcome of self._query_use_case.execute(request);
\* response.to_dict() on an object without that method is an AttributeError
QueryProduct(outcome) ==
    IF outcome.kind = "raise" THEN ErrorRecord(outcome.exc)
    ELSE IF outcome.kind = "object" THEN ErrorRecord("AttributeError")
    ELSE [raised |-> FALSE, success |-> TRUE, code |-> "",
          answer |-> outcome.answer, total_reviews |-> outcome.total,
          used_reviews |-> outcome.total]

AppInit ==
    /\ callIn \in [question : RetrievalQuestions, max_reviews : MaxReviewsValues,
                   outcome : UseCaseOutcomes]
    /\ callOut = <<>>
    /\ callPc = "input"
    /\ ChunkIdle
    /\ QueryIdle
    /\ LimitIdle
    /\ DiIdle

\* result = app_service.query_product(question, max_reviews=...)
QueryProductCall ==
    /\ callPc = "input"
    /\ callOut' = QueryProduct(callIn.outcome)
    /\ callPc' = "done"
    /\ UNCHANGED <<callIn, limitVars, diVars, chunkVars, fileVars, svcVars, queryVars>>

AppNext == QueryProductCall

AppSpec == AppInit /\ [][AppNext]_vars

\* C22: query_product never raises; it returns a record with a success
\* flag for every outcome of the use case, and when the use case raises the
\* flag is false and the error code is VALIDATION_ERROR for ValidationError,
\* BUSINESS_ERROR for RAGServiceError and AIServiceError, INTERNAL_ERROR
\* for every other exception.
C22_QueryProductNeverRaises ==
    callPc = "done" =>
        /\ ~callOut.raised
        /\ callOut.success \in BOOLEAN
        /\ callOut.success <=> callIn.outcome.kind = "response"
        /\ callIn.outcome.kind = "raise" =>
              callOut.code =
                  CASE callIn.outcome.exc = "ValidationError" -> "VALIDATION_ERROR"
                    [] callIn.outcome.exc = "RAGServiceError" -> "BUSINESS_ERROR"
                    [] callIn.outcome.exc = "AIServiceError" -> "BUSINESS_ERROR"
                    [] OTHER -> "INTERNAL_ERROR"

C22_Witness ==
    /\ callPc = "done"
    /\ callIn.outcome.kind = "raise"
    /\ callIn.outcome.exc = "APIError"
    /\ ~callOut.success
    /\ callOut.code = "INTERNAL_ERROR"


(***************************************************************************)
(* RateLimitingMiddleware: the clock advances, clients call                *)
(* check_rate_limits.                                                      *)
(***************************************************************************)
\* _clean_old_requests: the times of the history later than the cutoff
CleanOldRequests(history, t, window) ==
    SelectSeq(history, LAMBDA req_time : req_time > t - window)

\* check_rate_limits for a client with the given history at time t: each
\* _check_rate_limit first replaces the stored history by what
\* _clean_old_requests keeps for its own window, then compares its length
\* with the limit; _add_request follows when the three checks passed
CheckRateLimits(history, t) ==
    LET perMinute == CleanOldRequests(history, t, MinuteWindow)
        perHour == CleanOldRequests(perMinute, t, HourWindow)
        perDay == CleanOldRequests(perHour, t, DayWindow)
    IN  IF Len(perMinute) >= requests_per_minute
        THEN [ok |-> FALSE, retry_after |-> MinuteWindow, history |-> perMinute]
        ELSE IF Len(perHour) >= requests_per_hour
        THEN [ok |-> FALSE, retry_after |-> HourWindow, history |-> perHour]
        ELSE IF Len(perDay) >= requests_per_day
        THEN [ok |-> FALSE, retry_after |-> DayWindow, history |-> perDay]
        ELSE [ok |-> TRUE, retry_after |-> 0, history |-> Append(perDay, t)]

LimitInit ==
    /\ LimitFresh
    /\ limited = "on"
    /\ DiIdle
    /\ ChunkIdle
    /\ CallIdle
    /\ QueryIdle

\* time passes
Tick ==
    /\ limited = "on"
    /\ now < MaxTime
    /\ now' = now + 1
    /\ UNCHANGED <<request_history, admitted, limited, chunkVars, fileVars,
                   svcVars, queryVars, callVars, diVars>>

\* rate_limiting.check_rate_limits(request) for a request of client c
CheckRateLimitsCall(c) ==
    /\ limited = "on"
    /\ LET r == CheckRateLimits(request_history[c], now)
       IN  /\ request_history' = [request_history EXCEPT ![c] = r.history]
           /\ admitted' = IF r.ok THEN [admitted EXCEPT ![c] = Append(@, now)]
                          ELSE admitted
    /\ UNCHANGED <<now, limited, chunkVars, fileVars, svcVars, queryVars,
                   callVars, diVars>>

LimitNext == Tick \/ \E c \in Clients : CheckRateLimitsCall(c)

LimitSpec == LimitInit /\ [][LimitNext]_vars

\* the number of requests of client c let through in the window of the
\* given length that ends at time t
AdmittedWithin(c, t, window) ==
    Len(SelectSeq(admitted[c],
                  LAMBDA req_time : req_time > t - window /\ req_time <= t))

\* C23: for every client, the requests let through within any per-minute
\* window are at most requests_per_minute, within any per-hour window at
\* most requests_per_hour, within any per-day window at most
\* requests_per_day.
C23_EveryLimitOverItsWindow ==
    \A c \in Clients : \A t \in 0..now :
        /\ AdmittedWithin(c, t, MinuteWindow) <= requests_per_minute
        /\ AdmittedWithin(c, t, HourWindow) <= requests_per_hour
        /\ AdmittedWithin(c, t, DayWindow) <= requests_per_day

\* the per-minute limit alone
MinuteLimitHolds ==
    \A c \in Clients : \A t \in 0..now :
        AdmittedWithin(c, t, MinuteWindow) <= requests_per_minute

\* the history never holds a time that left the per-minute window when the
\* last check of its client ran, so the two longer checks count the same
\* requests as the per-minute check
LongerChecksNeverReject ==
    \A c \in Clients : Len(request_history[c]) <= requests_per_minute


(***************************************************************************)
(* Order of the stages of one query.                                       *)
(***************************************************************************)
StageOrder == <<"load", "stats", "prompt", "generate", "post">>

\* the stages of StageOrder that query t has executed, in execution order
StagesRun(t) ==
    SelectSeq(obs[t].events,
              LAMBDA e : \E i \in 1..Len(StageOrder) : StageOrder[i] = e)

\* C24: the stages a query has executed are a prefix of the order index
\* load, statistics extraction, prompt building, generation,
\* post-processing, each at most once; a query that is Done has executed
\* all five; a query that ended in Error has returned and has not executed
\* them all.
C24_StagesInFixedOrder ==
    \A t \in Threads :
        LET run == StagesRun(t)
        IN  /\ Len(run) <= Len(StageOrder)
            /\ run = SubSeq(StageOrder, 1, Len(run))
            /\ result[t].status = "Done" => run = StageOrder
            /\ result[t].status = "Error" =>
                   (Finished(t) /\ Len(run) < Len(StageOrder))

\* a query ran all five stages and is Done, and the next one stopped in
\* Error at the generator call
C24_Witness ==
    /\ hist # <<>>
    /\ result["t1"].status = "Error"
    /\ StagesRun("t1") = SubSeq(StageOrder, 1, 4)


(***************************************************************************)
(* Reload on every query.                                                  *)
(***************************************************************************)
\* the steps of a query that read RAGService._chunks
ReadsChunks(t) == Ran(t, "format") \/ Ran(t, "stats") \/ Ran(t, "post")

\* the step in which query t gets past load_index_and_chunks
LoadSucceeds(t) == pc[t] = "load" /\ pc'[t] = "format"

\* C25: every query_rag loads the index and the chunk list from the files
\* as they are at that moment, whatever the service held from an earlier
\* query, and reads a chunk only after that load.
C25_EveryQueryReloads ==
    /\ [](\A t \in Threads : ReadsChunks(t) => obs[t].events[1] = "load")
    /\ [][\A t \in Threads :
            LoadSucceeds(t) =>
                /\ indexFile.exists /\ chunksFile.exists
                /\ ragIndex'.data = indexFile.data
                /\ ragChunks'.data = chunksFile.data
                /\ obs'[t].snap = chunksFile.data]_vars

\* the first query ended before any write, and the second has just loaded
\* the chunk list a rebuild wrote since
C25_Witness ==
    /\ started = 2
    /\ hist # <<>>
    /\ hist[1].ver = 0
    /\ pc["t1"] = "format"
    /\ obs["t1"].snap \in RebuildLists
    /\ ragChunks.data = obs["t1"].snap


(***************************************************************************)
(* The offline rebuild (2_create_rag_index.main) on its own: the files     *)
(* start as one complete rebuild or deployment left them, the scraper and  *)
(* the rebuild rewrite them, and a rebuild can stop between its two        *)
(* writes (json.dump raising, the process being killed).                   *)
(***************************************************************************)
RebuildInit ==
    /\ \E data \in ChunkLists \cup RebuildLists :
          \/ chunksFile = NoFile /\ indexFile = NoFile
          \/ chunksFile = FileOf(data) /\ indexFile = FileOf(data)
    /\ reviewsFile \in {NoFile} \cup {FileOf(r) : r \in ReviewLists}
    /\ corpusVer = 0
    /\ rebuild = [active |-> FALSE, data |-> <<>>]
    /\ aiBackend = "MockAIService"
    /\ ragIndex = [set |-> FALSE, data |-> <<>>]
    /\ ragChunks = [set |-> FALSE, data |-> <<>>, by |-> "none"]
    /\ ragLoaded = FALSE
    /\ repoReviews = [loaded |-> FALSE, data |-> <<>>]
    /\ pc = [t \in Threads |-> "off"]
    /\ local = [t \in Threads |-> InitLocal]
    /\ obs = [t \in Threads |-> InitObs]
    /\ result = [t \in Threads |-> NoResult]
    /\ hist = <<>>
    /\ started = 0
    /\ ChunkIdle
    /\ CallIdle
    /\ LimitIdle
    /\ DiIdle

\* main ends after faiss.write_index and before chunks.json is written;
\* nothing undoes the write of the index
RebuildStops ==
    /\ rebuild.active
    /\ rebuild' = [active |-> FALSE, data |-> <<>>]
    /\ UNCHANGED <<limitVars, diVars, chunkVars, callVars, indexFile, chunksFile,
                   reviewsFile, corpusVer, svcVars, queryVars>>

RebuildNext == Writers \/ RebuildStops

RebuildSpec == RebuildInit /\ [][RebuildNext]_vars

\* C26: whenever no rebuild is in progress, also after one that stopped
\* part-way, the persisted index and the persisted chunk list are both
\* there or both missing, the index holds as many vectors as the list
\* holds chunks, and vector i is the embedding of chunk i.
C26_ArtifactsPositionallyCoupled ==
    ~rebuild.active =>
        /\ indexFile.exists = chunksFile.exists
        /\ indexFile.data = chunksFile.data


(***************************************************************************)
(* Queries while the rebuild writes.                                       *)
(***************************************************************************)
\* C27: every pair that load_index_and_chunks loaded successfully is one
\* index and one chunk list written by the same rebuild, so the index holds
\* as many vectors as the list holds chunks, also when the query runs
\* while the rebuild is writing.
C27_LoadedPairSameGeneration ==
    ragLoaded =>
        /\ Len(ragIndex.data) = Len(ragChunks.data)
        /\ ragIndex.data = ragChunks.data


(***************************************************************************)
(* The request handlers of FlaskApplication (one thread per request) on    *)
(* the process-wide container.  USE_MOCKS is not set in the environment.   *)
(* Of Container._services only the entry the handlers read is kept.        *)
(***************************************************************************)
\* Container.configure(use_mocks): _configure_mocks or _configure_production
Configure(use_mocks) ==
    IF use_mocks THEN "MockQueryApplicationService" ELSE "QueryApplicationService"

DiInit ==
    /\ DiFresh
    /\ reqPc = [h \in Handlers |-> "idle"]
    /\ ChunkIdle
    /\ CallIdle
    /\ LimitIdle
    /\ QueryIdle

\* a request arrives: use_mocks = data.get('use_mocks', False)
ReceiveRequest(h, use_mocks) ==
    /\ reqPc[h] \in {"idle", "served"}
    /\ reqPc' = [reqPc EXCEPT ![h] = "configure"]
    /\ reqUseMocks' = [reqUseMocks EXCEPT ![h] = use_mocks]
    /\ reqService' = [reqService EXCEPT ![h] = "none"]
    /\ UNCHANGED <<services, configured, chunkVars, fileVars, svcVars,
                   queryVars, callVars, limitVars>>

\* container = configure_container(use_mocks=use_mocks)
ConfigureContainer(h) ==
    /\ reqPc[h] = "configure"
    /\ services' = Configure(reqUseMocks[h])
    /\ configured' = TRUE
    /\ reqPc' = [reqPc EXCEPT ![h] = "get"]
    /\ UNCHANGED <<reqUseMocks, reqService, chunkVars, fileVars, svcVars,
                   queryVars, callVars, limitVars>>

\* app_service = container.get_query_application_service(); the query is
\* then made on app_service
GetQueryApplicationService(h) ==
    /\ reqPc[h] = "get"
    /\ reqService' = [reqService EXCEPT ![h] =
                         IF configured THEN services ELSE Configure(FALSE)]
    /\ services' = IF configured THEN services ELSE Configure(FALSE)
    /\ configured' = TRUE
    /\ reqPc' = [reqPc EXCEPT ![h] = "served"]
    /\ UNCHANGED <<reqUseMocks, chunkVars, fileVars, svcVars, queryVars,
                   callVars, limitVars>>

DiNext ==
    \/ \E h \in Handlers, use_mocks \in BOOLEAN : ReceiveRequest(h, use_mocks)
    \/ \E h \in Handlers : ConfigureContainer(h)
    \/ \E h \in Handlers : GetQueryApplicationService(h)

DiSpec == DiInit /\ [][DiNext]_vars

\* C28: a request with use_mocks = false is served by the production
\* application service and a request with use_mocks = true by the mock one,
\* also when two requests with different use_mocks interleave between
\* configure_container and get_query_application_service.
C28_ServedByRequestedService ==
    \A h \in Handlers :
        reqPc[h] = "served" =>
            reqService[h] = IF reqUseMocks[h] THEN "MockQueryApplicationService"
                            ELSE "QueryApplicationService"

\* a request is always served by one of the two application services
ServedBySomeService ==
    \A h \in Handlers :
        reqPc[h] = "served" =>
            reqService[h] \in {"MockQueryApplicationService",
                               "QueryApplicationService"}


(***************************************************************************)
(* QueryUseCase.execute as one call: a request on services just            *)
(* constructed, the files holding the given chunk list and review list.    *)
(***************************************************************************)
ExecuteFailed(e) ==
    [ok |-> FALSE, exc |-> ExecuteRaise(e), prompt |-> <<>>, answer |-> NoAnswer,
     total_reviews |-> 0, used_reviews |-> 0]

\* RAGService.query_rag(question), which is all that execute passes on of
\* the request, followed by get_review_statistics and the response DTO
Execute(request, chunks, reviews, backend, raw) ==
    IF Validate(request.question, request.max_reviews) # <<>>
    THEN ExecuteFailed("ValidationError")
    ELSE
      LET loaded == LoadIndexAndChunks(FileOf(chunks), FileOf(chunks))
          formatted == FormatReviews(loaded.chunks)
          stats == ExtractProductStats(loaded.chunks).stats
          prompt == BuildPrompt(request.question, formatted.top, stats)
          generated == GenerateResponse(backend, raw)
          total == ReviewTotal(LoadReviews([loaded |-> FALSE, data |-> <<>>],
                                           FileOf(reviews)).data)
      IN  IF ~loaded.ok THEN ExecuteFailed(QueryRagRaise(loaded.exc))
          ELSE IF ~formatted.ok THEN ExecuteFailed(QueryRagRaise(formatted.exc))
          ELSE IF ~generated.ok THEN ExecuteFailed(QueryRagRaise(generated.exc))
          ELSE [ok |-> TRUE, exc |-> NoExc, prompt |-> prompt,
                answer |-> AddReviewCount(generated.text, Len(loaded.chunks),
                                          Len(formatted.top)),
                total_reviews |-> total, used_reviews |-> total]

\* requests with a question that passes validation and no cap or a cap
\* within the permitted range
CappedRequests ==
    [question : {<<"a", "a", "a">>},
     max_reviews : {NoMaxReviews}
                     \cup {[present |-> TRUE, value |-> m] :
                             m \in {MinMaxReviews, MinMaxReviews + 1, MaxMaxReviews}}]

ExecuteInit ==
    /\ \E backend \in Backends :
          callIn \in [request : CappedRequests,
                      chunks : ChunkLists \cup RebuildLists,
                      reviews : ReviewLists \cup {<<>>},
                      backend : {backend},
                      raw : RawFor(backend)]
    /\ callOut = <<>>
    /\ callPc = "input"
    /\ ChunkIdle
    /\ QueryIdle
    /\ LimitIdle
    /\ DiIdle

\* response = self._query_use_case.execute(request)
ExecuteCall ==
    /\ callPc = "input"
    /\ callOut' = Execute(callIn.request, callIn.chunks, callIn.reviews,
                          callIn.backend, callIn.raw)
    /\ callPc' = "done"
    /\ UNCHANGED <<callIn, limitVars, diVars, chunkVars, fileVars, svcVars, queryVars>>

ExecuteNext == ExecuteCall

ExecuteSpec == ExecuteInit /\ [][ExecuteNext]_vars

\* C29: a successful response to a request with cap max_reviews = m,
\* 1 <= m <= 1000, has used_reviews <= m, and its prompt holds at most m
\* reviews.
C29_CapBoundsUsedReviews ==
    (/\ callPc = "done"
     /\ callOut.ok
     /\ callIn.request.max_reviews.present
     /\ callIn.request.max_reviews.value \in 1..1000) =>
        /\ callOut.used_reviews <= callIn.request.max_reviews.value
        /\ Len(LinesOf(callOut.prompt, "review")) <= callIn.request.max_reviews.value


\* C30: in every successful response of execute, used_reviews and
\* total_reviews equal the N and the M of the footer N/M appended to the
\* answer, and used_reviews <= total_reviews.
C30_CountsAgreeWithFooter ==
    (callPc = "done" /\ callOut.ok) =>
        /\ callOut.used_reviews = callOut.answer.used
        /\ callOut.total_reviews = callOut.answer.total
        /\ callOut.used_reviews <= callOut.total_reviews

\* the part of that statement that holds: used_reviews is total_reviews
UsedIsTotal ==
    (callPc = "done" /\ callOut.ok) => callOut.used_reviews = callOut.total_reviews

====
